---- MODULE Spec2Model ----
(***************************************************************************)
(* MacroManager (src/src/Project/util/isCompilableFile.ts).                *)
(*                                                                         *)
(* The constructor scans the declaration files of INCLUDE_FILES into three *)
(* name-keyed maps (identifiers, functions, interfaces), then binds the    *)
(* four macro tables to the scanned symbols, filling four symbol-keyed     *)
(* maps.  The four get*Macro methods read those maps.                      *)
(*                                                                         *)
(* The constructor is modelled in steps: one per declaration file opened,  *)
(* one per top-level statement, one per macro table entry.  The object is  *)
(* reachable by callers only after the constructor has returned            *)
(* (pc = "done"); a throw leaves pc = "failed" for ever.                   *)
(*                                                                         *)
(* Environment: the file system (pathExistsSync), the ts.Program           *)
(* (getSourceFileByPath, the statements of a source file) and the          *)
(* ts.TypeChecker (the symbol of a node) are inputs.  A ts.Symbol is the   *)
(* identity of a declared name: the symbol found for a declaration of      *)
(* name n (or of member m of interface n) is one of the symbols of n (of   *)
(* n.m); which one (site) is the type checker's choice.  Symbols of one    *)
(* name are interchangeable identities, so they are numbered 1, 2, ...     *)
(* without gaps.  A macro payload is an opaque                             *)
(* object of its table: the payload of an entry is identified by the table *)
(* and the key it is configured under.                                     *)
(***************************************************************************)
EXTENDS Integers, Sequences, FiniteSets, TLC

\* ---------------------------------------------------------------- bounds
MaxDeclared == 2   \* size of the declaration files together: the declarations
                   \* of their variable statements and the members of their
                   \* interfaces (any other statement, and an interface
                   \* without members, counting as one)
MaxEntries  == 2   \* keys of the four macro tables together (of the property
                   \* call table: its interfaces and their methods)

Names    == {"a", "b"}          \* declared names and macro table keys
Methods  == {"m", "n"}          \* method names
Sites    == {1, 2}              \* the symbols the type checker has for one name

undefined == <<"undefined">>

\* ------------------------------------------------------------- ts.Symbol
NEW_MEMBER == "__new"
NO_MEMBER  == ""

Symbols == [owner : Names, member : Methods \cup {NO_MEMBER, NEW_MEMBER}, site : Sites]

Sym(owner, member, site) == [owner |-> owner, member |-> member, site |-> site]

\* ------------------------------------------------------- declaration AST
\* a declaration of a variable statement: a simple name or a binding pattern
Declarations ==
    [isIdentifier : {TRUE}, name : Names, site : Sites]
      \cup {[isIdentifier |-> FALSE, name |-> "", site |-> 1]}

\* a member of an interface declaration: a method signature (with a simple
\* or a computed name), a construct signature, or anything else
Members ==
    [kind : {"method"}, isIdentifier : {TRUE}, name : Methods, site : Sites]
      \cup {[kind |-> "method", isIdentifier |-> FALSE, name |-> "", site |-> 1]}
      \cup [kind : {"construct"}, isIdentifier : {FALSE}, name : {""}, site : Sites]
      \cup {[kind |-> "other", isIdentifier |-> FALSE, name |-> "", site |-> 1]}

SeqUpTo(S, n) == UNION {[1..k -> S] : k \in 0..n}

\* the top-level statements of a declaration file of size at most n (n >= 1)
Statements(n) ==
    [kind : {"variable"}, name : {""}, site : {1},
     declarations : SeqUpTo(Declarations, n) \ {<<>>}, members : {<<>>}]
      \cup [kind : {"function"}, name : Names, site : Sites,
            declarations : {<<>>}, members : {<<>>}]
      \cup [kind : {"interface"}, name : Names, site : {1},
            declarations : {<<>>}, members : SeqUpTo(Members, n)]
      \cup {[kind |-> "other", name |-> "", site |-> 1,
             declarations |-> <<>>, members |-> <<>>]}

\* the size of a statement
Size(statement) ==
    IF Len(statement.declarations) + Len(statement.members) = 0
      THEN 1
      ELSE Len(statement.declarations) + Len(statement.members)

\* ----------------------------------------------------------- macro tables
\* Object.entries of a macro table: its keys are distinct, in insertion order
DistinctNames(entries) ==
    \A i, j \in 1..Len(entries) : entries[i].name = entries[j].name => i = j

\* the tables over Keys; tag tells the payloads of one table from another's
MacroTables(tag, Keys) ==
    {t \in SeqUpTo({[name |-> k, macro |-> Append(tag, k)] : k \in Keys}, MaxEntries) :
        DistinctNames(t)}

PropertyCallTables ==
    {t \in SeqUpTo(UNION {[name : {c}, methods : MacroTables(<<"propertyCall", c>>, Methods)] :
                            c \in Names}, MaxEntries) :
        DistinctNames(t)}

\* the keys of a property call table: its interfaces and their methods
RECURSIVE PropertyCallKeys(_)
PropertyCallKeys(t) ==
    IF t = <<>> THEN 0
    ELSE 1 + Len(Head(t).methods) + PropertyCallKeys(Tail(t))

\* ---------------------------------------------------------- declaration files
INCLUDE_FILES == <<"roblox.d.ts", "es.d.ts", "macro_math.d.ts">>

nodeModulesPath == "node_modules"

typesPath == <<nodeModulesPath, "@rbxts", "types", "include">>

\* path.join(typesPath, fileName)
filePath(fileName) == Append(typesPath, fileName)

\* ------------------------------------------------------------------ state
VARIABLES
    pc,                    \* position of the constructor
    fileIdx,               \* index into INCLUDE_FILES of the current file (0: none yet)
    scannedSize,           \* size of the statements scanned so far
    entryIdx,              \* index of the current macro table entry
    methodIdx,             \* index of the current method entry (property calls)
    identifiers,           \* Map<string, Array<ts.Symbol>>
    functions,             \* Map<string, Array<ts.Symbol>>
    interfaces,            \* Map<string, InterfaceInfo>
    identifierMacros,      \* Map<ts.Symbol, IdentifierMacro>
    callMacros,            \* Map<ts.Symbol, CallMacro>
    constructorMacros,     \* Map<ts.Symbol, ConstructorMacro>
    propertyCallMacros,    \* Map<ts.Symbol, PropertyCallMacro>
    IDENTIFIER_MACROS,     \* the four macro tables (fixed inputs)
    CALL_MACROS,
    CONSTRUCTOR_MACROS,
    PROPERTY_CALL_MACROS,
    error,                 \* the ProjectError thrown, or undefined
    answer,                \* the last method called and its result, or NoQuery
    declared,              \* history: the declarations the scanner has visited
    probed                 \* history: what the file system and the ts.Program
                           \* answered for each declaration file looked up

index    == <<identifiers, functions, interfaces>>
registry == <<identifierMacros, callMacros, constructorMacros, propertyCallMacros>>
tables   == <<IDENTIFIER_MACROS, CALL_MACROS, CONSTRUCTOR_MACROS, PROPERTY_CALL_MACROS>>
cursor   == <<fileIdx, scannedSize, entryIdx, methodIdx>>
history  == <<declared, probed>>
vars     == <<pc, cursor, index, registry, tables, error, answer, history>>

EmptyMap == <<>>

\* Map.has
MapHas(map, key) == key \in DOMAIN map

\* Map.get
MapGet(map, key) == IF key \in DOMAIN map THEN map[key] ELSE undefined

\* Map.set
MapSet(map, key, value) ==
    [k \in DOMAIN map \cup {key} |-> IF k = key THEN value ELSE map[k]]

NewInterfaceInfo == [symbols |-> <<>>, constructors |-> <<>>, methods |-> EmptyMap]

\* (mutation) getOrDefault that stores the default value whether or not the
\* key is present
getOrDefault_alwaysDefault(map, key, defaultValue) == MapSet(map, key, defaultValue)

\* getOrDefault: the map with key present (arrays and objects are truthy,
\* so "!value" is "key absent")
getOrDefault(map, key, defaultValue) ==
    IF MapHas(map, key) THEN map ELSE MapSet(map, key, defaultValue)

\* (mutation) the array is replaced by one holding only the new symbol
Push_overwrite(map, key, symbol) == [map EXCEPT ![key] = <<symbol>>]

\* map.get(key).push(symbol) on the array held by the map
Push(map, key, symbol) == [map EXCEPT ![key] = Append(@, symbol)]

\* a call of one of the four methods by the code generator, and what it got
Query(op, result) == [op |-> op, result |-> result]

\* no method has been called yet
NoQuery == Query("none", undefined)

Init ==
    /\ pc = "scan"
    /\ fileIdx = 0
    /\ scannedSize = 0
    /\ entryIdx = 0
    /\ methodIdx = 0
    /\ identifiers = EmptyMap
    /\ functions = EmptyMap
    /\ interfaces = EmptyMap
    /\ identifierMacros = EmptyMap
    /\ callMacros = EmptyMap
    /\ constructorMacros = EmptyMap
    /\ propertyCallMacros = EmptyMap
    /\ IDENTIFIER_MACROS \in MacroTables(<<"identifier">>, Names)
    /\ CALL_MACROS \in MacroTables(<<"call">>, Names)
    /\ CONSTRUCTOR_MACROS \in MacroTables(<<"constructor">>, Names)
    /\ PROPERTY_CALL_MACROS \in PropertyCallTables
    /\ Len(IDENTIFIER_MACROS) + Len(CALL_MACROS) + Len(CONSTRUCTOR_MACROS)
         + PropertyCallKeys(PROPERTY_CALL_MACROS) <= MaxEntries
    /\ error = undefined
    /\ answer = NoQuery
    /\ declared = {}
    /\ probed = <<>>

\* throw new ProjectError(message)
Throw(message) ==
    /\ pc' = "failed"
    /\ error' = message

\* the position of the binder at entry idx of the table of phase: the entry
\* itself, or the first entry of the next table that has one, or the return
\* of the constructor
RECURSIVE Advance(_, _)
Advance(phase, idx) ==
    LET len  == CASE phase = "identifier"   -> Len(IDENTIFIER_MACROS)
                  [] phase = "call"         -> Len(CALL_MACROS)
                  [] phase = "constructor"  -> Len(CONSTRUCTOR_MACROS)
                  [] phase = "propertyCall" -> Len(PROPERTY_CALL_MACROS)
        next == CASE phase = "identifier"   -> "call"
                  [] phase = "call"         -> "constructor"
                  [] phase = "constructor"  -> "propertyCall"
                  [] phase = "propertyCall" -> "done"
    IN  IF idx <= len THEN [pc |-> phase, entryIdx |-> idx]
        ELSE IF next = "done" THEN [pc |-> "done", entryIdx |-> 0]
        ELSE Advance(next, 1)

\* ------------------------------------------------------ Declaration Scanner
RECURSIVE ScanDeclarations(_, _)
ScanDeclarations(ids, declarations) ==
    IF declarations = <<>> THEN ids
    ELSE LET declaration == Head(declarations)
         IN  ScanDeclarations(
               IF declaration.isIdentifier
                 THEN Push(getOrDefault(ids, declaration.name, <<>>),
                           declaration.name,
                           Sym(declaration.name, NO_MEMBER, declaration.site))
                 ELSE ids,
               Tail(declarations))

ScanFunction(fns, statement) ==
    Push(getOrDefault(fns, statement.name, <<>>), statement.name,
         Sym(statement.name, NO_MEMBER, statement.site))

RECURSIVE ScanMembers(_, _, _)
ScanMembers(interfaceInfo, className, members) ==
    IF members = <<>> THEN interfaceInfo
    ELSE LET member == Head(members)
             next ==
               IF member.kind = "method"
                 THEN IF member.isIdentifier
                        THEN [interfaceInfo EXCEPT !.methods =
                                Push(getOrDefault(@, member.name, <<>>), member.name,
                                     Sym(className, member.name, member.site))]
                        ELSE interfaceInfo
                 ELSE IF member.kind = "construct"
                   THEN [interfaceInfo EXCEPT !.constructors =
                           Append(@, Sym(className, NEW_MEMBER, member.site))]
                   ELSE interfaceInfo
         IN  ScanMembers(next, className, Tail(members))

ScanInterface(ifs, statement) ==
    LET created == getOrDefault(ifs, statement.name, NewInterfaceInfo)
        pushed  == [created[statement.name] EXCEPT !.symbols =
                      Append(@, Sym(statement.name, NO_MEMBER, statement.site))]
    IN  [created EXCEPT ![statement.name] =
           ScanMembers(pushed, statement.name, statement.members)]

\* the body of the loop over sourceFile.statements
ScanStatementInto(idx, statement) ==
    CASE statement.kind = "variable" ->
           [idx EXCEPT !.identifiers = ScanDeclarations(@, statement.declarations)]
      [] statement.kind = "function" ->
           [idx EXCEPT !.functions = ScanFunction(@, statement)]
      [] statement.kind = "interface" ->
           [idx EXCEPT !.interfaces = ScanInterface(@, statement)]
      [] OTHER -> idx

\* what a statement declares: the (kind, name, symbol) of every simple-named
\* variable, function, interface, method and construct signature in it
DeclaredBy(statement) ==
    {[kind |-> "identifier", name |-> statement.declarations[j].name,
      symbol |-> Sym(statement.declarations[j].name, NO_MEMBER,
                     statement.declarations[j].site)] :
        j \in {j \in 1..Len(statement.declarations) :
                 statement.kind = "variable" /\ statement.declarations[j].isIdentifier}}
    \cup
    {[kind |-> statement.kind, name |-> statement.name,
      symbol |-> Sym(statement.name, NO_MEMBER, statement.site)] :
        j \in {j \in {1} : statement.kind \in {"function", "interface"}}}
    \cup
    {[kind |-> statement.members[j].kind, name |-> statement.name,
      symbol |-> Sym(statement.name,
                     IF statement.members[j].kind = "method"
                       THEN statement.members[j].name ELSE NEW_MEMBER,
                     statement.members[j].site)] :
        j \in {j \in 1..Len(statement.members) :
                 /\ statement.kind = "interface"
                 /\ \/ statement.members[j].kind = "construct"
                    \/ /\ statement.members[j].kind = "method"
                       /\ statement.members[j].isIdentifier}}

\* the symbols met for one name (one method, the construct signatures of one
\* interface) are numbered 1, 2, ... without gaps
NumberedConsecutively(declarations) ==
    \A d \in declarations :
        \/ d.symbol.site = 1
        \/ \E e \in declarations :
              /\ e.kind = d.kind
              /\ e.name = d.name
              /\ e.symbol.member = d.symbol.member
              /\ e.symbol.site = d.symbol.site - 1

\* one iteration of the loop over sourceFile.statements
ScanStatement ==
    /\ pc = "scan"
    /\ fileIdx >= 1
    /\ scannedSize < MaxDeclared
    /\ \E statement \in Statements(MaxDeclared - scannedSize) :
         LET scannedIndex ==
               ScanStatementInto([identifiers |-> identifiers, functions |-> functions,
                                  interfaces |-> interfaces], statement)
         IN  /\ NumberedConsecutively(declared \cup DeclaredBy(statement))
             /\ identifiers' = scannedIndex.identifiers
             /\ functions' = scannedIndex.functions
             /\ interfaces' = scannedIndex.interfaces
             /\ declared' = declared \cup DeclaredBy(statement)
             /\ scannedSize' = scannedSize + Size(statement)
    /\ UNCHANGED <<pc, fileIdx, entryIdx, methodIdx, registry, tables, error, answer, probed>>

\* (mutation) a declaration file that does not exist is skipped
NextFile_skipMissing ==
    /\ pc = "scan"
    /\ IF fileIdx = Len(INCLUDE_FILES)
         THEN LET after == Advance("identifier", 1)
              IN  /\ pc' = after.pc
                  /\ entryIdx' = after.entryIdx
                  /\ UNCHANGED <<fileIdx, error, probed>>
         ELSE \E exists \in BOOLEAN, hasSourceFile \in BOOLEAN :
                LET path == filePath(INCLUDE_FILES[fileIdx + 1]) IN
                /\ probed' = Append(probed, [path |-> path, exists |-> exists,
                                             hasSourceFile |-> exists /\ hasSourceFile])
                /\ IF exists /\ ~hasSourceFile
                     THEN /\ Throw(<<"Could not find source file for", path>>)
                          /\ UNCHANGED <<fileIdx, entryIdx>>
                     ELSE /\ fileIdx' = fileIdx + 1
                          /\ UNCHANGED <<pc, entryIdx, error>>
    /\ UNCHANGED <<scannedSize, methodIdx, index, registry, tables, answer, declared>>

\* the head of the loop over INCLUDE_FILES: the statements of the current
\* file (if any) are exhausted; either the files are too, and the binder
\* starts, or the next file is checked and its statements are entered
NextFile ==
    /\ pc = "scan"
    /\ IF fileIdx = Len(INCLUDE_FILES)
         THEN LET after == Advance("identifier", 1)
              IN  /\ pc' = after.pc
                  /\ entryIdx' = after.entryIdx
                  /\ UNCHANGED <<fileIdx, error, probed>>
         ELSE \E exists \in BOOLEAN, hasSourceFile \in BOOLEAN :
                LET path == filePath(INCLUDE_FILES[fileIdx + 1]) IN
                /\ probed' = Append(probed, [path |-> path, exists |-> exists,
                                             hasSourceFile |-> exists /\ hasSourceFile])
                /\ IF ~exists
                     THEN /\ Throw(<<"Path does not exist", path>>)
                          /\ UNCHANGED <<fileIdx, entryIdx>>
                     ELSE IF ~hasSourceFile
                       THEN /\ Throw(<<"Could not find source file for", path>>)
                            /\ UNCHANGED <<fileIdx, entryIdx>>
                       ELSE /\ fileIdx' = fileIdx + 1
                            /\ UNCHANGED <<pc, entryIdx, error>>
    /\ UNCHANGED <<scannedSize, methodIdx, index, registry, tables, answer, declared>>

\* ------------------------------------------------------------- Macro Binder
\* (mutation) only the first symbol of the list is bound
SetAll_firstOnly(map, symbols, macro) ==
    IF symbols = <<>> THEN map ELSE MapSet(map, Head(symbols), macro)

\* for (const symbol of symbols) map.set(symbol, macro)
RECURSIVE SetAll(_, _, _)
SetAll(map, symbols, macro) ==
    IF symbols = <<>> THEN map
    ELSE SetAll(MapSet(map, Head(symbols), macro), Tail(symbols), macro)

\* (mutation) the identifier is looked up with getOrDefault: a missing name is
\* added to the index instead of raising the error
BindIdentifierMacro_getOrDefault ==
    /\ pc = "identifier"
    /\ LET identifierName == IDENTIFIER_MACROS[entryIdx].name
           macro          == IDENTIFIER_MACROS[entryIdx].macro
           after          == Advance("identifier", entryIdx + 1)
           created        == IF MapHas(identifiers, identifierName)
                               THEN identifiers
                               ELSE MapSet(identifiers, identifierName, <<>>)
       IN  /\ identifiers' = created
           /\ identifierMacros' = SetAll(identifierMacros, created[identifierName], macro)
           /\ pc' = after.pc
           /\ entryIdx' = after.entryIdx
           /\ UNCHANGED error
    /\ UNCHANGED <<fileIdx, scannedSize, methodIdx, functions, interfaces, callMacros,
                   constructorMacros, propertyCallMacros, tables, answer, history>>

\* one iteration of the loop over IDENTIFIER_MACROS
BindIdentifierMacro ==
    /\ pc = "identifier"
    /\ LET identifierName == IDENTIFIER_MACROS[entryIdx].name
           macro          == IDENTIFIER_MACROS[entryIdx].macro
           after          == Advance("identifier", entryIdx + 1)
       IN  IF ~MapHas(identifiers, identifierName)
             THEN /\ Throw(<<"No identifier found for", identifierName>>)
                  /\ UNCHANGED <<entryIdx, identifierMacros>>
             ELSE /\ identifierMacros' =
                       SetAll(identifierMacros, identifiers[identifierName], macro)
                  /\ pc' = after.pc
                  /\ entryIdx' = after.entryIdx
                  /\ UNCHANGED error
    /\ UNCHANGED <<fileIdx, scannedSize, methodIdx, index, callMacros, constructorMacros,
                   propertyCallMacros, tables, answer, history>>

\* (mutation) a call macro whose function is missing is skipped
BindCallMacro_skipMissing ==
    /\ pc = "call"
    /\ LET funcName == CALL_MACROS[entryIdx].name
           macro    == CALL_MACROS[entryIdx].macro
           after    == Advance("call", entryIdx + 1)
       IN  /\ callMacros' = IF MapHas(functions, funcName)
                              THEN SetAll(callMacros, functions[funcName], macro)
                              ELSE callMacros
           /\ pc' = after.pc
           /\ entryIdx' = after.entryIdx
           /\ UNCHANGED error
    /\ UNCHANGED <<fileIdx, scannedSize, methodIdx, index, identifierMacros,
                   constructorMacros, propertyCallMacros, tables, answer, history>>

\* one iteration of the loop over CALL_MACROS
BindCallMacro ==
    /\ pc = "call"
    /\ LET funcName == CALL_MACROS[entryIdx].name
           macro    == CALL_MACROS[entryIdx].macro
           after    == Advance("call", entryIdx + 1)
       IN  IF ~MapHas(functions, funcName)
             THEN /\ Throw(<<"No function found for", funcName>>)
                  /\ UNCHANGED <<entryIdx, callMacros>>
             ELSE /\ callMacros' = SetAll(callMacros, functions[funcName], macro)
                  /\ pc' = after.pc
                  /\ entryIdx' = after.entryIdx
                  /\ UNCHANGED error
    /\ UNCHANGED <<fileIdx, scannedSize, methodIdx, index, identifierMacros,
                   constructorMacros, propertyCallMacros, tables, answer, history>>

\* (mutation) an interface without construct signatures raises the error too
BindConstructorMacro_requireConstructors ==
    /\ pc = "constructor"
    /\ LET className == CONSTRUCTOR_MACROS[entryIdx].name
           macro     == CONSTRUCTOR_MACROS[entryIdx].macro
           after     == Advance("constructor", entryIdx + 1)
       IN  IF \/ ~MapHas(interfaces, className)
              \/ interfaces[className].constructors = <<>>
             THEN /\ Throw(<<"No interface found for", className>>)
                  /\ UNCHANGED <<entryIdx, constructorMacros>>
             ELSE /\ constructorMacros' =
                       SetAll(constructorMacros, interfaces[className].constructors, macro)
                  /\ pc' = after.pc
                  /\ entryIdx' = after.entryIdx
                  /\ UNCHANGED error
    /\ UNCHANGED <<fileIdx, scannedSize, methodIdx, index, identifierMacros, callMacros,
                   propertyCallMacros, tables, answer, history>>

\* one iteration of the loop over CONSTRUCTOR_MACROS
BindConstructorMacro ==
    /\ pc = "constructor"
    /\ LET className == CONSTRUCTOR_MACROS[entryIdx].name
           macro     == CONSTRUCTOR_MACROS[entryIdx].macro
           after     == Advance("constructor", entryIdx + 1)
       IN  IF ~MapHas(interfaces, className)
             THEN /\ Throw(<<"No interface found for", className>>)
                  /\ UNCHANGED <<entryIdx, constructorMacros>>
             ELSE /\ constructorMacros' =
                       SetAll(constructorMacros, interfaces[className].constructors, macro)
                  /\ pc' = after.pc
                  /\ entryIdx' = after.entryIdx
                  /\ UNCHANGED error
    /\ UNCHANGED <<fileIdx, scannedSize, methodIdx, index, identifierMacros, callMacros,
                   propertyCallMacros, tables, answer, history>>

\* one iteration of the outer loop over PROPERTY_CALL_MACROS, up to its
\* inner loop: the lookup of the interface
BindPropertyCallClass ==
    /\ pc = "propertyCall"
    /\ LET className == PROPERTY_CALL_MACROS[entryIdx].name
           methods   == PROPERTY_CALL_MACROS[entryIdx].methods
           after     == Advance("propertyCall", entryIdx + 1)
       IN  IF ~MapHas(interfaces, className)
             THEN /\ Throw(<<"No interface found for", className>>)
                  /\ UNCHANGED <<entryIdx, methodIdx>>
             ELSE IF methods = <<>>
               THEN /\ pc' = after.pc
                    /\ entryIdx' = after.entryIdx
                    /\ UNCHANGED <<methodIdx, error>>
               ELSE /\ pc' = "method"
                    /\ methodIdx' = 1
                    /\ UNCHANGED <<entryIdx, error>>
    /\ UNCHANGED <<fileIdx, scannedSize, index, registry, tables, answer, history>>

\* (mutation) the macro is bound to the symbols of every method of the interface
BindPropertyCallMacro_allMethods ==
    /\ pc = "method"
    /\ LET className     == PROPERTY_CALL_MACROS[entryIdx].name
           methods       == PROPERTY_CALL_MACROS[entryIdx].methods
           interfaceInfo == interfaces[className]
           methodName    == methods[methodIdx].name
           macro         == methods[methodIdx].macro
           after         == Advance("propertyCall", entryIdx + 1)
           allSymbols    == UNION {{interfaceInfo.methods[m][k] :
                                      k \in 1..Len(interfaceInfo.methods[m])} :
                                   m \in DOMAIN interfaceInfo.methods}
       IN  IF ~MapHas(interfaceInfo.methods, methodName)
             THEN /\ Throw(<<"No method found for", className, methodName>>)
                  /\ UNCHANGED <<entryIdx, methodIdx, propertyCallMacros>>
             ELSE /\ propertyCallMacros' =
                       [symbol \in DOMAIN propertyCallMacros \cup allSymbols |->
                          IF symbol \in allSymbols THEN macro
                                                   ELSE propertyCallMacros[symbol]]
                  /\ IF methodIdx < Len(methods)
                       THEN /\ methodIdx' = methodIdx + 1
                            /\ UNCHANGED <<pc, entryIdx>>
                       ELSE /\ methodIdx' = 0
                            /\ pc' = after.pc
                            /\ entryIdx' = after.entryIdx
                  /\ UNCHANGED error
    /\ UNCHANGED <<fileIdx, scannedSize, index, identifierMacros, callMacros,
                   constructorMacros, tables, answer, history>>

\* one iteration of the inner loop over the methods of a property call entry
BindPropertyCallMacro ==
    /\ pc = "method"
    /\ LET className     == PROPERTY_CALL_MACROS[entryIdx].name
           methods       == PROPERTY_CALL_MACROS[entryIdx].methods
           interfaceInfo == interfaces[className]
           methodName    == methods[methodIdx].name
           macro         == methods[methodIdx].macro
           after         == Advance("propertyCall", entryIdx + 1)
       IN  IF ~MapHas(interfaceInfo.methods, methodName)
             THEN /\ Throw(<<"No method found for", className, methodName>>)
                  /\ UNCHANGED <<entryIdx, methodIdx, propertyCallMacros>>
             ELSE /\ propertyCallMacros' =
                       SetAll(propertyCallMacros, interfaceInfo.methods[methodName], macro)
                  /\ IF methodIdx < Len(methods)
                       THEN /\ methodIdx' = methodIdx + 1
                            /\ UNCHANGED <<pc, entryIdx>>
                       ELSE /\ methodIdx' = 0
                            /\ pc' = after.pc
                            /\ entryIdx' = after.entryIdx
                  /\ UNCHANGED error
    /\ UNCHANGED <<fileIdx, scannedSize, index, identifierMacros, callMacros,
                   constructorMacros, tables, answer, history>>

\* ---------------------------------------------------------- Macro Registry
getIdentifierMacro(symbol) == MapGet(identifierMacros, symbol)

getCallMacro(symbol) == MapGet(callMacros, symbol)

getConstructorMacro(symbol) == MapGet(constructorMacros, symbol)

getPropertyCallMacro(symbol) == MapGet(propertyCallMacros, symbol)

\* (mutation) the method can be called on an object whose constructor threw
CallGetIdentifierMacro_afterThrow ==
    /\ pc \in {"done", "failed"}
    /\ \E symbol \in Symbols :
         answer' = Query("getIdentifierMacro", getIdentifierMacro(symbol))
    /\ UNCHANGED <<pc, cursor, index, registry, tables, error, history>>

CallGetIdentifierMacro ==
    /\ pc = "done"
    /\ \E symbol \in Symbols :
         answer' = Query("getIdentifierMacro", getIdentifierMacro(symbol))
    /\ UNCHANGED <<pc, cursor, index, registry, tables, error, history>>

\* (mutation) the method stores what it answers in the table
CallGetCallMacro_caching ==
    /\ pc = "done"
    /\ \E symbol \in Symbols :
         /\ answer' = Query("getCallMacro", getCallMacro(symbol))
         /\ callMacros' = MapSet(callMacros, symbol, getCallMacro(symbol))
    /\ UNCHANGED <<pc, cursor, index, identifierMacros, constructorMacros,
                   propertyCallMacros, tables, error, history>>

CallGetCallMacro ==
    /\ pc = "done"
    /\ \E symbol \in Symbols :
         answer' = Query("getCallMacro", getCallMacro(symbol))
    /\ UNCHANGED <<pc, cursor, index, registry, tables, error, history>>

CallGetConstructorMacro ==
    /\ pc = "done"
    /\ \E symbol \in Symbols :
         answer' = Query("getConstructorMacro", getConstructorMacro(symbol))
    /\ UNCHANGED <<pc, cursor, index, registry, tables, error, history>>

CallGetPropertyCallMacro ==
    /\ pc = "done"
    /\ \E symbol \in Symbols :
         answer' = Query("getPropertyCallMacro", getPropertyCallMacro(symbol))
    /\ UNCHANGED <<pc, cursor, index, registry, tables, error, history>>

Next ==
    \/ NextFile
    \/ ScanStatement
    \/ BindIdentifierMacro
    \/ BindCallMacro
    \/ BindConstructorMacro
    \/ BindPropertyCallClass
    \/ BindPropertyCallMacro
    \/ CallGetIdentifierMacro
    \/ CallGetCallMacro
    \/ CallGetConstructorMacro
    \/ CallGetPropertyCallMacro

Spec == Init /\ [][Next]_vars

\* ====================================================================
\* Properties
\* ====================================================================
Range(f) == {f[i] : i \in DOMAIN f}

\* the symbols a name-keyed map holds under a name
SymbolsOf(map, name) == IF MapHas(map, name) THEN Range(map[name]) ELSE {}

\* the symbols the scanner met for a declaration of this kind and name
DeclaredSymbols(kind, name) ==
    {d.symbol : d \in {e \in declared : e.kind = kind /\ e.name = name}}

Constructed == pc = "done"

\* construction was aborted while the declaration files were looked up
ScanFailed ==
    /\ pc = "failed"
    /\ error[1] \in {"Path does not exist", "Could not find source file for"}

\* construction is over and the binder has run (to its end or to an error)
BinderRan == pc \in {"done", "failed"} /\ ~ScanFailed

RegistryEmpty ==
    /\ identifierMacros = EmptyMap
    /\ callMacros = EmptyMap
    /\ constructorMacros = EmptyMap
    /\ propertyCallMacros = EmptyMap

\* the lookups of one table against one map, in table order
NameLookups(table, map, text) ==
    [i \in 1..Len(table) |->
        [found |-> MapHas(map, table[i].name), message |-> <<text, table[i].name>>]]

\* the lookups of the property call table: each interface, then (if it is
\* there) each of its methods
RECURSIVE PropertyCallLookups(_)
PropertyCallLookups(table) ==
    IF table = <<>> THEN <<>>
    ELSE LET className == Head(table).name
             methods   == Head(table).methods
             hasClass  == MapHas(interfaces, className)
         IN  <<[found |-> hasClass, message |-> <<"No interface found for", className>>]>>
             \o (IF hasClass
                   THEN [j \in 1..Len(methods) |->
                           [found |-> MapHas(interfaces[className].methods, methods[j].name),
                            message |-> <<"No method found for", className, methods[j].name>>]]
                   ELSE <<>>)
             \o PropertyCallLookups(Tail(table))

\* every lookup of a macro target in the Name Index, in the order of the tables
Lookups ==
    NameLookups(IDENTIFIER_MACROS, identifiers, "No identifier found for")
      \o NameLookups(CALL_MACROS, functions, "No function found for")
      \o NameLookups(CONSTRUCTOR_MACROS, interfaces, "No interface found for")
      \o PropertyCallLookups(PROPERTY_CALL_MACROS)

Misses == {i \in 1..Len(Lookups) : ~Lookups[i].found}

\* the error messages that name the macro targets absent from the Name Index
AbsentTargets == {Lookups[i].message : i \in Misses}

FirstAbsentTarget ==
    Lookups[CHOOSE i \in Misses : \A j \in Misses : i <= j].message

\* C1 (as stated): once the binder has run, for every macro table entry whose
\* target is absent from the Name Index, construction has failed with the
\* error that names that target.
C1_EveryAbsentTargetReported ==
    BinderRan => \A message \in AbsentTargets : pc = "failed" /\ error = message

\* C1 (amended): once the binder has run, if any macro table entry has a target
\* absent from the Name Index, construction has failed with the error that
\* names the first such target in binding order.
C1_FirstAbsentTargetReported ==
    (BinderRan /\ AbsentTargets # {}) => pc = "failed" /\ error = FirstAbsentTarget

\* two targets are absent, and the one met first is the one reported
C1_Witness ==
    /\ BinderRan
    /\ Cardinality(AbsentTargets) >= 2
    /\ pc = "failed"
    /\ error = FirstAbsentTarget

\* C2: once construction has thrown, nothing more happens to it: no query is
\* ever answered, the binder binds nothing further, and the error stays.
C2_NoRegistryAfterError ==
    /\ [](pc = "failed" => answer = NoQuery /\ error # undefined)
    /\ [](answer # NoQuery => pc = "done" /\ error = undefined)
    /\ [][pc = "failed" => UNCHANGED <<pc, error, registry, answer>>]_vars

\* construction failed at a later entry after an earlier entry was bound
C2_Witness ==
    /\ pc = "failed"
    /\ ~ScanFailed
    /\ ~RegistryEmpty
    /\ answer = NoQuery

\* C3: after a successful construction, every symbol the identifier index
\* (function index) holds under a name of the identifier (call) macro table is
\* answered by getIdentifierMacro (getCallMacro) with the payload of that name.
C3_IdentifierAndCallMacrosBound ==
    Constructed =>
      /\ \A i \in 1..Len(IDENTIFIER_MACROS) :
           \A symbol \in SymbolsOf(identifiers, IDENTIFIER_MACROS[i].name) :
             getIdentifierMacro(symbol) = IDENTIFIER_MACROS[i].macro
      /\ \A i \in 1..Len(CALL_MACROS) :
           \A symbol \in SymbolsOf(functions, CALL_MACROS[i].name) :
             getCallMacro(symbol) = CALL_MACROS[i].macro

\* a function with two overload symbols and a call macro, both overloads
\* bound, and getCallMacro has answered with the payload
C3_Witness ==
    /\ Constructed
    /\ \E i \in 1..Len(CALL_MACROS) :
         /\ Cardinality(SymbolsOf(functions, CALL_MACROS[i].name)) = 2
         /\ getCallMacro(Sym(CALL_MACROS[i].name, NO_MEMBER, 2)) = CALL_MACROS[i].macro
         /\ answer = Query("getCallMacro", CALL_MACROS[i].macro)

\* C4: after a successful construction, every construct signature symbol the
\* scanner met in any declaration of an interface named in the constructor
\* macro table is bound to the payload of that interface.
C4_ConstructorMacrosBound ==
    Constructed =>
      \A i \in 1..Len(CONSTRUCTOR_MACROS) :
        \A symbol \in DeclaredSymbols("construct", CONSTRUCTOR_MACROS[i].name) :
          getConstructorMacro(symbol) = CONSTRUCTOR_MACROS[i].macro

\* an interface declared twice, each declaration with its own construct
\* signature symbol, both bound
C4_Witness ==
    /\ Constructed
    /\ \E i \in 1..Len(CONSTRUCTOR_MACROS) :
         LET className == CONSTRUCTOR_MACROS[i].name IN
         /\ Cardinality(DeclaredSymbols("construct", className)) = 2
         /\ MapHas(interfaces, className)
         /\ Len(interfaces[className].symbols) = 2
         /\ \A symbol \in DeclaredSymbols("construct", className) :
              MapHas(constructorMacros, symbol)

\* the method symbols the scanner met for method methodName of interface className
DeclaredMethodSymbols(className, methodName) ==
    {symbol \in DeclaredSymbols("method", className) : symbol.member = methodName}

\* C5: after a successful construction, every symbol the scanner met for a
\* method of an (interface, method) pair of the property call macro table, in
\* any declaration of the interface, is bound to the payload of that pair.
C5_PropertyCallMacrosBound ==
    Constructed =>
      \A i \in 1..Len(PROPERTY_CALL_MACROS) :
        \A j \in 1..Len(PROPERTY_CALL_MACROS[i].methods) :
          LET className == PROPERTY_CALL_MACROS[i].name
              entry     == PROPERTY_CALL_MACROS[i].methods[j]
          IN  \A symbol \in DeclaredMethodSymbols(className, entry.name) :
                getPropertyCallMacro(symbol) = entry.macro

\* a method declared by two merged declarations of its interface, with two
\* symbols, both bound
C5_Witness ==
    /\ Constructed
    /\ \E i \in 1..Len(PROPERTY_CALL_MACROS) :
         \E j \in 1..Len(PROPERTY_CALL_MACROS[i].methods) :
           LET className  == PROPERTY_CALL_MACROS[i].name
               methodName == PROPERTY_CALL_MACROS[i].methods[j].name
           IN  /\ Cardinality(DeclaredMethodSymbols(className, methodName)) = 2
               /\ MapHas(interfaces, className)
               /\ Len(interfaces[className].symbols) = 2
               /\ \A symbol \in DeclaredMethodSymbols(className, methodName) :
                    MapHas(propertyCallMacros, symbol)

\* the scanner met symbol in a declaration that a macro table names
RecordedForIdentifierMacro(symbol) ==
    \E i \in 1..Len(IDENTIFIER_MACROS) :
       symbol \in DeclaredSymbols("identifier", IDENTIFIER_MACROS[i].name)

RecordedForCallMacro(symbol) ==
    \E i \in 1..Len(CALL_MACROS) :
       symbol \in DeclaredSymbols("function", CALL_MACROS[i].name)

RecordedForConstructorMacro(symbol) ==
    \E i \in 1..Len(CONSTRUCTOR_MACROS) :
       symbol \in DeclaredSymbols("construct", CONSTRUCTOR_MACROS[i].name)

RecordedForPropertyCallMacro(symbol) ==
    \E i \in 1..Len(PROPERTY_CALL_MACROS) :
       \E j \in 1..Len(PROPERTY_CALL_MACROS[i].methods) :
          symbol \in DeclaredMethodSymbols(PROPERTY_CALL_MACROS[i].name,
                                           PROPERTY_CALL_MACROS[i].methods[j].name)

\* C6: after a successful construction, each of the four methods answers
\* undefined, and raises nothing, for every symbol the scanner did not meet
\* under a name (an interface and method) of the corresponding macro table.
C6_NoMacroForUnrecordedSymbols ==
    Constructed =>
      /\ error = undefined
      /\ \A symbol \in Symbols :
           /\ ~RecordedForIdentifierMacro(symbol) => getIdentifierMacro(symbol) = undefined
           /\ ~RecordedForCallMacro(symbol) => getCallMacro(symbol) = undefined
           /\ ~RecordedForConstructorMacro(symbol) => getConstructorMacro(symbol) = undefined
           /\ ~RecordedForPropertyCallMacro(symbol) => getPropertyCallMacro(symbol) = undefined

\* an interface with methods m and n and a property call macro for m only:
\* m is bound, n is not, and getPropertyCallMacro has answered undefined
C6_Witness ==
    /\ Constructed
    /\ \E className \in Names :
         /\ PROPERTY_CALL_MACROS =
              <<[name |-> className,
                 methods |-> <<[name |-> "m",
                                macro |-> <<"propertyCall", className, "m">>]>>]>>
         /\ getPropertyCallMacro(Sym(className, "m", 1)) = <<"propertyCall", className, "m">>
         /\ Sym(className, "n", 1) \in DeclaredSymbols("method", className)
         /\ getPropertyCallMacro(Sym(className, "n", 1)) = undefined
         /\ answer = Query("getPropertyCallMacro", undefined)

\* the files whose lookup failed
FailedProbes == {k \in 1..Len(probed) : ~(probed[k].exists /\ probed[k].hasSourceFile)}

\* C7: the declaration files are looked up in the order of INCLUDE_FILES; a
\* file that does not exist fails construction with the error carrying its
\* path, a file that exists but has no source file in the program fails it
\* with the other error; at the failure and after it no statement is scanned,
\* no further file is looked up and no macro is bound.
C7_FileLookupFailureAborts ==
    /\ [](/\ \A k \in 1..Len(probed) :
               /\ probed[k].path = filePath(INCLUDE_FILES[k])
               /\ ~probed[k].exists =>
                     /\ pc = "failed"
                     /\ error = <<"Path does not exist", probed[k].path>>
               /\ (probed[k].exists /\ ~probed[k].hasSourceFile) =>
                     /\ pc = "failed"
                     /\ error = <<"Could not find source file for", probed[k].path>>
          /\ FailedProbes \subseteq {Len(probed)}
          /\ FailedProbes # {} => RegistryEmpty /\ fileIdx = Len(probed) - 1
          /\ ScanFailed => FailedProbes # {})
    /\ [][pc' = "failed" => UNCHANGED <<index, declared, scannedSize, fileIdx>>]_vars

\* the second file exists but the program has no source file for it, after a
\* statement of the first file was scanned
C7_Witness ==
    /\ pc = "failed"
    /\ Len(probed) = 2
    /\ probed[2].exists
    /\ ~probed[2].hasSourceFile
    /\ error = <<"Could not find source file for", filePath("es.d.ts")>>
    /\ declared # {}
    /\ RegistryEmpty

\* what the registry answers to the calls of a method
Answers(op) ==
    CASE op = "getIdentifierMacro"   -> {getIdentifierMacro(symbol) : symbol \in Symbols}
      [] op = "getCallMacro"         -> {getCallMacro(symbol) : symbol \in Symbols}
      [] op = "getConstructorMacro"  -> {getConstructorMacro(symbol) : symbol \in Symbols}
      [] op = "getPropertyCallMacro" -> {getPropertyCallMacro(symbol) : symbol \in Symbols}
      [] OTHER                       -> {undefined}

\* C8: once construction has succeeded the four symbol-keyed tables never
\* change, and every answer is what the (unchanged) table of the method called
\* holds for a symbol, so that a repeated call gets the answer of the first.
C8_RegistryImmutable ==
    /\ [][Constructed => Constructed' /\ registry' = registry]_vars
    /\ [](answer.result \in Answers(answer.op))

\* a query that found a macro, in a registry with two bound tables
C8_Witness ==
    /\ Constructed
    /\ answer.op = "getConstructorMacro"
    /\ answer.result # undefined
    /\ identifierMacros # EmptyMap

\* C9: while the files are scanned the four output tables stay empty, so
\* nothing is bound before the last file is scanned; and from the moment the
\* binder starts the Name Index does not change.
C9_ScanThenBind ==
    /\ [](pc = "scan" => RegistryEmpty)
    /\ [](~RegistryEmpty => fileIdx = Len(INCLUDE_FILES))
    /\ [][pc = "scan" => registry' = registry]_vars
    /\ [][pc # "scan" => index' = index]_vars

\* the scan of the last file has recorded a name that the identifier macro
\* table has a macro for, and nothing is bound yet
C9_Witness ==
    /\ pc = "scan"
    /\ fileIdx = Len(INCLUDE_FILES)
    /\ IDENTIFIER_MACROS # <<>>
    /\ MapHas(identifiers, IDENTIFIER_MACROS[1].name)
    /\ RegistryEmpty

\* C10: a constructor macro for an interface that is in the Name Index with no
\* construct signature raises no error and binds nothing, whereas a property
\* call macro for a method with no recorded symbol fails construction.
C10_EmptyConstructorsTolerated ==
    /\ [][(/\ pc = "constructor"
           /\ MapHas(interfaces, CONSTRUCTOR_MACROS[entryIdx].name)
           /\ interfaces[CONSTRUCTOR_MACROS[entryIdx].name].constructors = <<>>)
            => (pc' # "failed" /\ error' = undefined /\ registry' = registry)]_vars
    /\ [][(/\ pc = "method"
           /\ DeclaredMethodSymbols(PROPERTY_CALL_MACROS[entryIdx].name,
                 PROPERTY_CALL_MACROS[entryIdx].methods[methodIdx].name) = {})
            => (/\ pc' = "failed"
                /\ error' = <<"No method found for", PROPERTY_CALL_MACROS[entryIdx].name,
                              PROPERTY_CALL_MACROS[entryIdx].methods[methodIdx].name>>)]_vars

\* construction succeeded with a constructor macro for an interface without
\* construct signatures, and the constructor table is empty
C10_Witness ==
    /\ Constructed
    /\ \E i \in 1..Len(CONSTRUCTOR_MACROS) :
         /\ MapHas(interfaces, CONSTRUCTOR_MACROS[i].name)
         /\ interfaces[CONSTRUCTOR_MACROS[i].name].constructors = <<>>
    /\ constructorMacros = EmptyMap

====
